---- MODULE Spec2Model ----
(***************************************************************************)
(* A model of the differential-privacy running-statistics store            *)
(* (packages/differential-privacy/src): one session's persisted fields in  *)
(* a byte-keyed storage, one RunningStatsStore instance with its lazily    *)
(* filled per-field cache, the random source, and the public operations.   *)
(*                                                                         *)
(* Fixed-point values are kept as their raw two's-complement bits.  The    *)
(* widths are scaled by 1/8 so that TLC's integers hold every product:     *)
(* I32F32 (64 bits) is 8 bits, I64F64 (128 bits) is 16 bits, u32 is 4 bits *)
(* and a byte is 1 bit, so that every encoding keeps its length in bytes.  *)
(***************************************************************************)
EXTENDS Integers, Sequences, FiniteSets, TLC

RECURSIVE Pow2(_)
Pow2(n) == IF n = 0 THEN 1 ELSE 2 * Pow2(n - 1)

\* ---------------------------------------------------------------- widths
\* I32F32: integer bits (with the sign) and fractional bits.
IntBits == 6
FracBits == 2
\* u32 (count, and one draw of the random source has FracBits bits).
CountBits == 4
\* bits of one stored byte.
ByteBits == 1

NarrowBits == IntBits + FracBits
WideFrac == 2 * FracBits
WideBits == 2 * NarrowBits
One == Pow2(FracBits)
WideOne == Pow2(WideFrac)
MinNarrow == -Pow2(NarrowBits - 1)
MaxNarrow == Pow2(NarrowBits - 1) - 1
MinWide == -Pow2(WideBits - 1)
MaxWide == Pow2(WideBits - 1) - 1
NarrowModulus == Pow2(NarrowBits)
WideModulus == Pow2(WideBits)
MaxU32 == Pow2(CountBits) - 1
DrawMax == Pow2(FracBits) - 1
NarrowBytes == NarrowBits \div ByteBits
WideBytes == WideBits \div ByteBits
CountBytes == CountBits \div ByteBits

\* ------------------------------------------------------------ bounds
\* queries are offered while fewer than MaxCharged have been charged for.
MaxCharged == 3
\* clear is offered MaxClears times.
MaxClears == 1
\* a behaviour of SpecFields makes MaxCalls calls.
MaxCalls == 2
\* a behaviour of SpecSiblings makes MaxSiblingCalls calls.
MaxSiblingCalls == 3
MaxReplicaCalls == 3
StreamLen == 6
\* the endpoints of the segments have coordinates in 0 .. GridMax.
GridMax == 2

\* ------------------------------------------------- fixed-point arithmetic
\* An arithmetic result in the narrow (I32F32) and in the wide (I64F64) type:
\* the wrapped two's-complement value, and whether the exact one overflowed.
Narrow(x) == [val |-> ((x - MinNarrow) % NarrowModulus) + MinNarrow,
              ovf |-> x < MinNarrow \/ x > MaxNarrow]
Wide(x) == [val |-> ((x - MinWide) % WideModulus) + MinWide,
            ovf |-> x < MinWide \/ x > MaxWide]

\* Integer division rounding towards zero (Rust's /).
TruncDiv(a, b) ==
    IF (a >= 0) = (b > 0)
    THEN (IF a >= 0 THEN a \div b ELSE (-a) \div (-b))
    ELSE (IF a >= 0 THEN -(a \div (-b)) ELSE -((-a) \div b))

FxAdd(a, b) == Narrow(a + b)
FxSub(a, b) == Narrow(a - b)
FxNeg(a) == Narrow(-a)
\* fixed * fixed: the wide product shifted right by the fractional bits.
FxMul(a, b) == Narrow((a * b) \div One)
\* fixed / fixed (b # 0): the shifted dividend divided, rounding to zero.
FxDiv(a, b) == Narrow(TruncDiv(a * One, b))
\* integer * fixed, as in `2 * epsilon`: the bits multiplied.
FxIntMul(k, a) == Narrow(k * a)

WideAdd(a, b) == Wide(a + b)
WideDiv(a, b) == Wide(TruncDiv(a * WideOne, b))

\* I64F64::from_num(x: I32F32): always fits.
WideFromNarrow(a) == a * (WideOne \div One)
\* I64F64::from_num(n: u32): always fits.
WideFromU32(n) == n * WideOne
\* I32F32::from_num(x: I64F64): the extra fractional bits are dropped.
NarrowFromWide(a) == Narrow(a \div (WideOne \div One))
\* I32F32::from_num(n: u32)
NarrowFromU32(n) == Narrow(n * One)

\* ----------------------------------------------------------- byte strings
Byte == Pow2(ByteBits)

RECURSIVE UnsignedBytes(_, _)
UnsignedBytes(u, n) ==
    IF n = 0 THEN << >> ELSE Append(UnsignedBytes(u \div Byte, n - 1), u % Byte)

\* to_le_bytes of I32F32: the bytes of to_be_bytes in the opposite order.
NarrowToLe(x) ==
    [i \in 1..NarrowBytes |->
        UnsignedBytes(x % NarrowModulus, NarrowBytes)[NarrowBytes + 1 - i]]

\* to_be_bytes of the three integer widths: two's complement, big-endian.
NarrowToBe(x) == UnsignedBytes(x % NarrowModulus, NarrowBytes)
WideToBe(x) == UnsignedBytes(x % WideModulus, WideBytes)
U32ToBe(x) == UnsignedBytes(x, CountBytes)

RECURSIVE UnsignedOf(_)
UnsignedOf(bytes) ==
    IF bytes = << >> THEN 0
    ELSE UnsignedOf(SubSeq(bytes, 1, Len(bytes) - 1)) * Byte + bytes[Len(bytes)]

\* from_be_bytes of the three integer widths.
NarrowFromBe(bytes) == Narrow(UnsignedOf(bytes)).val
WideFromBe(bytes) == Wide(UnsignedOf(bytes)).val
U32FromBe(bytes) == UnsignedOf(bytes)

\* Option<T>: None is the empty sequence, Some(v) the one-element sequence.
None == << >>
Some(v) == <<v>>
IsSome(o) == Len(o) = 1
Unwrap(o) == o[1]

\* Bincode2 of Option<[u8; 8]>: a one-byte tag, then the array's bytes.
BincodeOption(o) == IF IsSome(o) THEN <<1>> \o Unwrap(o) ELSE <<0>>

\* ------------------------------------------------------------------ state
\* The eight persisted fields of a session, by the tag of their storage key.
Fields == {"count", "sum", "ub", "lb", "epsilon", "a-sen", "budget", "status"}

STATUS_COLLECTING_DATA == 0
STATUS_CALCULATING_STATS == 1
CollectingData == "CollectingData"
CalculatingStats == "CalculatingStats"

VARIABLES
    storage,          \* the session's keys: field -> Option<bytes>
    cache,            \* the store instance's Mutex<Option<_>> fields
    debugAssertions,  \* the build: TRUE when arithmetic overflow panics
    pending,          \* the observations the caller has still to submit
    last,             \* the last call: [op, arg, outcome, val, draws consumed]
    finalized,        \* history: a set_status(CalculatingStats) has returned Ok
    budget0,          \* history: the budget the session started with
    charged,          \* history: queries that returned Ok, an average counting twice
    cleared,          \* history: the calls of clear
    calls             \* history: the calls made on the fields, one by one

vars == <<storage, cache, debugAssertions, pending, last, finalized, budget0, charged,
          cleared, calls>>

EmptyCache == [f \in Fields |-> None]

\* ---------------------------------------------------------------- getters
\* What a getter returns: Err or Ok(val), and the entry it leaves in its cache
\* field.  A getter reads its own key and touches its own cache field only, so
\* within one call every getter is applied to the cache c and the storage st
\* the call started with (each field is read before the call writes it).
Got(v) == [err |-> FALSE, val |-> v, entry |-> Some(v)]
Cached(c, f) == [err |-> FALSE, val |-> Unwrap(c[f]), entry |-> c[f]]
GetErr == [err |-> TRUE, val |-> 0, entry |-> None]

get_count(c, st) ==
    IF IsSome(c["count"]) THEN Cached(c, "count")
    ELSE IF IsSome(st["count"])
    THEN (IF Len(Unwrap(st["count"])) # CountBytes THEN GetErr
          ELSE Got(U32FromBe(Unwrap(st["count"]))))
    ELSE Got(0)

get_sum(c, st) ==
    IF IsSome(c["sum"]) THEN Cached(c, "sum")
    ELSE IF IsSome(st["sum"])
    THEN (IF Len(Unwrap(st["sum"])) # WideBytes THEN GetErr
          ELSE Got(WideFromBe(Unwrap(st["sum"]))))
    ELSE Got(0)

\* get_upper_bound, get_lower_bound, get_epsilon and get_privacy_budget differ
\* in their key and their default only.
GetNarrow(c, st, f, default) ==
    IF IsSome(c[f]) THEN Cached(c, f)
    ELSE IF IsSome(st[f])
    THEN (IF Len(Unwrap(st[f])) # NarrowBytes THEN GetErr
          ELSE Got(NarrowFromBe(Unwrap(st[f]))))
    ELSE Got(default)

\* get_upper_bound with the maximum as the default of an absent key.
get_upper_bound_from_max(c, st) == GetNarrow(c, st, "ub", MaxNarrow)

get_upper_bound(c, st) == GetNarrow(c, st, "ub", MinNarrow)
get_lower_bound(c, st) == GetNarrow(c, st, "lb", MaxNarrow)
get_epsilon(c, st) == GetNarrow(c, st, "epsilon", One)
get_privacy_budget(c, st) == GetNarrow(c, st, "budget", One)

\* get_avg_sensitivity returns an Option and caches only a value it has read.
get_avg_sensitivity(c, st) ==
    IF IsSome(c["a-sen"]) THEN [err |-> FALSE, val |-> c["a-sen"], entry |-> c["a-sen"]]
    ELSE IF IsSome(st["a-sen"])
    THEN (IF Len(Unwrap(st["a-sen"])) # NarrowBytes THEN GetErr
          ELSE [err |-> FALSE, val |-> Some(NarrowFromBe(Unwrap(st["a-sen"]))),
                entry |-> Some(NarrowFromBe(Unwrap(st["a-sen"])))])
    ELSE [err |-> FALSE, val |-> None, entry |-> None]

\* A decoding of the status byte that takes every byte other than 0 for 1.
StatusOfAnyByte(b) ==
    IF b = STATUS_COLLECTING_DATA THEN Some(CollectingData) ELSE Some(CalculatingStats)

StatusOfByte(b) ==
    IF b = STATUS_COLLECTING_DATA THEN Some(CollectingData)
    ELSE IF b = STATUS_CALCULATING_STATS THEN Some(CalculatingStats)
    ELSE None

get_status(c, st) ==
    IF IsSome(c["status"]) THEN Cached(c, "status")
    ELSE IF IsSome(st["status"])
    THEN (IF Len(Unwrap(st["status"])) # 1 THEN GetErr
          ELSE IF IsSome(StatusOfByte(U32FromBe(Unwrap(st["status"]))))
          THEN Got(Unwrap(StatusOfByte(U32FromBe(Unwrap(st["status"])))))
          ELSE GetErr)
    ELSE Got(CollectingData)

Getter(c, st, f) ==
    CASE f = "count" -> get_count(c, st)
      [] f = "sum" -> get_sum(c, st)
      [] f = "ub" -> get_upper_bound(c, st)
      [] f = "lb" -> get_lower_bound(c, st)
      [] f = "epsilon" -> get_epsilon(c, st)
      [] f = "a-sen" -> get_avg_sensitivity(c, st)
      [] f = "budget" -> get_privacy_budget(c, st)
      [] f = "status" -> get_status(c, st)

\* The cache after the getters of the fields in `read` have run.
CacheAfter(c, st, read) ==
    [f \in Fields |-> IF f \in read THEN Getter(c, st, f).entry ELSE c[f]]

\* ---------------------------------------------------------------- setters
\* The setters write the key and leave the cache alone.
set_count(st, count) == [st EXCEPT !["count"] = Some(U32ToBe(count))]
set_sum(st, sum) == [st EXCEPT !["sum"] = Some(WideToBe(sum))]
\* set_upper_bound writing under EPSILON_KEY instead of UPPER_BOUND_KEY.
set_upper_bound_as_epsilon(st, v) == [st EXCEPT !["epsilon"] = Some(NarrowToBe(v))]

set_upper_bound(st, v) == [st EXCEPT !["ub"] = Some(NarrowToBe(v))]
set_lower_bound(st, v) == [st EXCEPT !["lb"] = Some(NarrowToBe(v))]
set_epsilon(st, v) == [st EXCEPT !["epsilon"] = Some(NarrowToBe(v))]
set_privacy_budget(st, v) == [st EXCEPT !["budget"] = Some(NarrowToBe(v))]
set_average_sensitivity(st, o) ==
    [st EXCEPT !["a-sen"] =
        Some(BincodeOption(IF IsSome(o) THEN Some(NarrowToBe(Unwrap(o))) ELSE None))]

\* What a call returns and leaves behind: the outcome ("ok", an error, or
\* "panic"), the value of Ok, the fields whose getters ran, the storage and
\* the draws consumed.
Ret(outcome, val, read, st, draws) ==
    [outcome |-> outcome, val |-> val, read |-> read, storage |-> st, draws |-> draws]

\* ------------------------------------------------------- add_observation
add_observation(c, st, x) ==
    LET s == get_status(c, st)
        n == get_count(c, st)
        sm == get_sum(c, st)
        ub == get_upper_bound(c, st)
        lb == get_lower_bound(c, st)
        new_sum == WideAdd(sm.val, WideFromNarrow(x))
        st1 == set_count(st, n.val + 1)
        st2 == set_sum(st1, new_sum.val)
        st3 == IF ub.val < x THEN set_upper_bound(st2, x) ELSE st2
        st4 == IF lb.val > x THEN set_lower_bound(st3, x) ELSE st3
    IN
    IF s.err THEN Ret("DecodeError", 0, {}, st, 0)
    ELSE IF s.val # CollectingData THEN Ret("InvalidState", 0, {"status"}, st, 0)
    ELSE IF n.err THEN Ret("DecodeError", 0, {"status"}, st, 0)
    ELSE IF n.val + 1 > MaxU32 THEN Ret("Overflow", 0, {"status", "count"}, st, 0)
    ELSE IF sm.err THEN Ret("DecodeError", 0, {"status", "count"}, st1, 0)
    ELSE IF new_sum.ovf THEN Ret("Overflow", 0, {"status", "count", "sum"}, st1, 0)
    ELSE IF ub.err THEN Ret("DecodeError", 0, {"status", "count", "sum"}, st2, 0)
    ELSE IF lb.err THEN Ret("DecodeError", 0, {"status", "count", "sum", "ub"}, st3, 0)
    ELSE Ret("ok", 0, {"status", "count", "sum", "ub", "lb"}, st4, 0)

\* --------------------------------------------------- set_status and clear
set_status(c, st, status) ==
    LET s == get_status(c, st)
        n == get_count(c, st)
    IN
    IF status = CollectingData
    THEN (IF s.err THEN Ret("DecodeError", 0, {}, st, 0)
          ELSE IF s.val = CalculatingStats THEN Ret("InvalidState", 0, {"status"}, st, 0)
          ELSE Ret("ok", 0, {"status"},
                   [st EXCEPT !["status"] = Some(<<STATUS_COLLECTING_DATA>>)], 0))
    ELSE (IF n.err THEN Ret("DecodeError", 0, {}, st, 0)
          ELSE IF n.val = 0 THEN Ret("EmptyDataset", 0, {"count"}, st, 0)
          ELSE Ret("ok", 0, {"count"},
                   [st EXCEPT !["status"] = Some(<<STATUS_CALCULATING_STATS>>)], 0))

clear(c, st) == Ret("ok", 0, {}, set_sum(set_count(st, 0), 0), 0)

\* RunningStatsStore::new: the cache of the instance it returns.  The three
\* arguments are not used.
new(epsilon, avg_sensitivity, privacy_budget) == EmptyCache

is_empty(c, st) ==
    IF get_count(c, st).err THEN Ret("DecodeError", FALSE, {}, st, 0)
    ELSE Ret("ok", get_count(c, st).val = 0, {"count"}, st, 0)

\* ------------------------------------------------------- random and laplace
\* One draw of the random source has as many bits as I32F32 has fractional bits.
Draws == 0 .. DrawMax

\* numerator / u32::MAX in I64F64, converted to I32F32.
random_unit_interval(n) ==
    NarrowFromWide(WideDiv(WideFromU32(n), WideFromU32(DrawMax)).val).val

\* substrate_fixed::transcendental::ln on [0, 1]: Err(()) for an operand <= 0,
\* else the logarithm rounded down to the fixed-point grid (ln 1/4, ln 1/2,
\* ln 3/4, ln 1 on the grid of quarters).
ln(u) ==
    IF u <= 0 THEN None
    ELSE Some(CASE 4 * u <= One -> -((3 * One) \div 2)
                [] 2 * u <= One -> -((3 * One) \div 4)
                [] 4 * u <= 3 * One -> -(One \div 2)
                [] OTHER -> 0)

\* A laplace that takes both uniform samples from its first draw.
laplace_of_one_draw(scale, d1, d2, dbg) ==
    LET neg == FxNeg(scale)
        l1 == ln(random_unit_interval(d1))
        e1 == FxMul(neg.val, Unwrap(l1))
        diff == FxSub(e1.val, e1.val)
    IN
    IF dbg /\ neg.ovf THEN [panic |-> TRUE, val |-> 0, draws |-> 0]
    ELSE IF ~IsSome(l1) THEN [panic |-> TRUE, val |-> 0, draws |-> 1]
    ELSE IF dbg /\ (e1.ovf \/ diff.ovf) THEN [panic |-> TRUE, val |-> 0, draws |-> 1]
    ELSE [panic |-> FALSE, val |-> diff.val, draws |-> 1]

\* laplace(rng, scale) on the draws d1, d2: [panic, val, draws consumed].
\* ln's Err is unwrapped; an overflowing operation panics in a build with
\* debug assertions and wraps in one without.
laplace(scale, d1, d2, dbg) ==
    LET neg == FxNeg(scale)
        l1 == ln(random_unit_interval(d1))
        l2 == ln(random_unit_interval(d2))
        e1 == FxMul(neg.val, Unwrap(l1))
        e2 == FxMul(neg.val, Unwrap(l2))
        diff == FxSub(e1.val, e2.val)
    IN
    IF dbg /\ neg.ovf THEN [panic |-> TRUE, val |-> 0, draws |-> 0]
    ELSE IF ~IsSome(l1) THEN [panic |-> TRUE, val |-> 0, draws |-> 1]
    ELSE IF dbg /\ e1.ovf THEN [panic |-> TRUE, val |-> 0, draws |-> 1]
    ELSE IF ~IsSome(l2) THEN [panic |-> TRUE, val |-> 0, draws |-> 2]
    ELSE IF dbg /\ (e2.ovf \/ diff.ovf) THEN [panic |-> TRUE, val |-> 0, draws |-> 2]
    ELSE [panic |-> FALSE, val |-> diff.val, draws |-> 2]

\* ------------------------------------------------------------ fuzzy_count
\* fuzzy_count on the draws d = <<d1, d2>>.
fuzzy_count(c, st, dbg, d) ==
    LET s == get_status(c, st)
        n == get_count(c, st)
        eps == get_epsilon(c, st)
        bud == get_privacy_budget(c, st)
        all == {"status", "count", "epsilon", "budget"}
        scale == FxDiv(One, eps.val)
        noise == laplace(scale.val, d[1], d[2], dbg)
        cnt == NarrowFromU32(n.val)
        fuzzy == FxAdd(cnt.val, noise.val)
        left == FxSub(bud.val, eps.val)
    IN
    IF s.err THEN Ret("DecodeError", 0, {}, st, 0)
    ELSE IF s.val # CalculatingStats THEN Ret("InvalidState", 0, {"status"}, st, 0)
    ELSE IF n.err THEN Ret("DecodeError", 0, {"status"}, st, 0)
    ELSE IF n.val = 0 THEN Ret("EmptyDataset", 0, {"status", "count"}, st, 0)
    ELSE IF eps.err THEN Ret("DecodeError", 0, {"status", "count"}, st, 0)
    ELSE IF bud.err THEN Ret("DecodeError", 0, {"status", "count", "epsilon"}, st, 0)
    ELSE IF bud.val < eps.val THEN Ret("BudgetExhausted", 0, all, st, 0)
    ELSE IF eps.val = 0 THEN Ret("panic", 0, all, st, 0)
    ELSE IF dbg /\ scale.ovf THEN Ret("panic", 0, all, st, 0)
    ELSE IF noise.panic THEN Ret("panic", 0, all, st, noise.draws)
    ELSE IF dbg /\ (cnt.ovf \/ fuzzy.ovf \/ left.ovf) THEN Ret("panic", 0, all, st, 2)
    ELSE Ret("ok", fuzzy.val, all, set_privacy_budget(st, left.val), 2)

\* ---------------------------------------------------------- fuzzy_average
\* fuzzy_average up to its first draw: the checks and the reads, the two noise
\* scales.  `ret` is what the call returns when it returns before any draw.
average_checked(c, st, dbg) ==
    LET s == get_status(c, st)
        n == get_count(c, st)
        eps == get_epsilon(c, st)
        privacy_cost == FxIntMul(2, eps.val)
        bud == get_privacy_budget(c, st)
        sen == get_avg_sensitivity(c, st)
        ub == get_upper_bound(c, st)
        lb == get_lower_bound(c, st)
        bounded == ~sen.err /\ ~IsSome(sen.val)
        r4 == {"status", "count", "epsilon", "budget"}
        r5 == r4 \cup {"a-sen"}
        r7 == IF bounded THEN r5 \cup {"ub", "lb"} ELSE r5
        sensitivity == IF bounded THEN FxSub(ub.val, lb.val)
                       ELSE Narrow(Unwrap(sen.val))
        scale == FxDiv(sensitivity.val, eps.val)
        early ==
            IF s.err THEN Some(Ret("DecodeError", 0, {}, st, 0))
            ELSE IF s.val # CalculatingStats THEN Some(Ret("InvalidState", 0, {"status"}, st, 0))
            ELSE IF n.err THEN Some(Ret("DecodeError", 0, {"status"}, st, 0))
            ELSE IF n.val = 0 THEN Some(Ret("EmptyDataset", 0, {"status", "count"}, st, 0))
            ELSE IF eps.err THEN Some(Ret("DecodeError", 0, {"status", "count"}, st, 0))
            ELSE IF dbg /\ privacy_cost.ovf
            THEN Some(Ret("panic", 0, {"status", "count", "epsilon"}, st, 0))
            ELSE IF bud.err THEN Some(Ret("DecodeError", 0, {"status", "count", "epsilon"}, st, 0))
            ELSE IF bud.val < privacy_cost.val THEN Some(Ret("BudgetExhausted", 0, r4, st, 0))
            ELSE IF sen.err THEN Some(Ret("DecodeError", 0, r4, st, 0))
            ELSE IF bounded /\ ub.err THEN Some(Ret("DecodeError", 0, r5, st, 0))
            ELSE IF bounded /\ lb.err THEN Some(Ret("DecodeError", 0, r5 \cup {"ub"}, st, 0))
            ELSE IF dbg /\ sensitivity.ovf THEN Some(Ret("panic", 0, r7, st, 0))
            ELSE IF eps.val = 0 THEN Some(Ret("panic", 0, r7, st, 0))
            ELSE IF dbg /\ scale.ovf THEN Some(Ret("panic", 0, r7, st, 0))
            ELSE None
    IN  IF IsSome(early)
        THEN [ret |-> early]
        ELSE [ret |-> None, read |-> r7, count |-> n.val, epsilon |-> eps.val,
              budget |-> bud.val, privacy_cost |-> privacy_cost.val,
              scale |-> scale.val, scale1 |-> FxDiv(One, eps.val), sum |-> get_sum(c, st)]

\* fuzzy_average from its first draw on: sum_noise and noise are what the two
\* calls of laplace return (the second is not made when the call ends first).
average_noised(p, st, dbg, sum_noise, noise) ==
    LET r8 == p.read \cup {"sum"}
        dp_sum == WideAdd(p.sum.val, WideFromNarrow(sum_noise.val))
        real_count == NarrowFromU32(p.count)
        noisy == FxAdd(real_count.val, noise.val)
        dp_count == WideFromNarrow(noisy.val)
        quot == WideDiv(dp_sum.val, dp_count)
        dp_average == NarrowFromWide(quot.val)
        left == FxSub(p.budget, p.privacy_cost)
    IN
    IF sum_noise.panic THEN Ret("panic", 0, p.read, st, sum_noise.draws)
    ELSE IF p.sum.err THEN Ret("DecodeError", 0, p.read, st, 2)
    ELSE IF dbg /\ (dp_sum.ovf \/ p.scale1.ovf) THEN Ret("panic", 0, r8, st, 2)
    ELSE IF noise.panic THEN Ret("panic", 0, r8, st, 2 + noise.draws)
    ELSE IF dbg /\ (real_count.ovf \/ noisy.ovf) THEN Ret("panic", 0, r8, st, 4)
    ELSE IF dp_count = 0 THEN Ret("panic", 0, r8, st, 4)
    ELSE IF dbg /\ (quot.ovf \/ dp_average.ovf \/ left.ovf) THEN Ret("panic", 0, r8, st, 4)
    ELSE Ret("ok", dp_average.val, r8, set_privacy_budget(st, left.val), 4)

\* fuzzy_average on the draws d = <<d1, d2, d3, d4>>.
fuzzy_average(c, st, dbg, d) ==
    IF IsSome(average_checked(c, st, dbg).ret)
    THEN Unwrap(average_checked(c, st, dbg).ret)
    ELSE average_noised(average_checked(c, st, dbg), st, dbg,
                        laplace(average_checked(c, st, dbg).scale, d[1], d[2], dbg),
                        laplace(average_checked(c, st, dbg).scale1.val, d[3], d[4], dbg))

\* ---------------------------------------------------------------- actions
\* A session before its first use: no key is stored but epsilon and the
\* budget, which set_epsilon and set_privacy_budget have written or left
\* absent (new ignores its arguments; an absent epsilon reads as 1), and the
\* observations its caller is going to submit, in their order.
Huge == -MinNarrow \div 2
Sessions ==
    {[epsilon |-> None, budget |-> Some(NarrowToBe(2 * One)),
      feed |-> <<3 * One, 5 * One, 7 * One>>],
     [epsilon |-> None, budget |-> Some(NarrowToBe(3 * One)),
      feed |-> <<10 * One, 20 * One>>],
     [epsilon |-> Some(NarrowToBe(2 * One)), budget |-> Some(NarrowToBe(3 * One)),
      feed |-> <<7 * One, 3 * One>>],
     [epsilon |-> Some(NarrowToBe(Huge)), budget |-> Some(NarrowToBe(2 * One)),
      feed |-> <<5 * One>>]}

\* The persisted fields, decoded (the default when the key is absent).
PCount == get_count(EmptyCache, storage).val
PSum == get_sum(EmptyCache, storage).val
PUpper == get_upper_bound(EmptyCache, storage).val
PLower == get_lower_bound(EmptyCache, storage).val
PEpsilon == get_epsilon(EmptyCache, storage).val
PBudget == get_privacy_budget(EmptyCache, storage).val
PStatus == get_status(EmptyCache, storage).val

Called(op, arg, outcome, val, draws) ==
    [op |-> op, arg |-> arg, outcome |-> outcome, val |-> val, draws |-> draws]

Init ==
    /\ \E session \in Sessions :
          /\ storage = [f \in Fields |->
                          CASE f = "epsilon" -> session.epsilon
                            [] f = "budget" -> session.budget
                            [] OTHER -> None]
          /\ pending = session.feed
    /\ cache = EmptyCache
    /\ debugAssertions \in BOOLEAN
    /\ last = Called("new", 0, "ok", 0, 0)
    /\ finalized = FALSE
    /\ budget0 = PBudget
    /\ charged = 0
    /\ cleared = 0
    /\ calls = 0

\* A call returns: its effects on the storage and the cache, and what the
\* caller sees.
Return(op, arg, r) ==
    /\ storage' = r.storage
    /\ cache' = CacheAfter(cache, storage, r.read)
    /\ last' = Called(op, arg, r.outcome, r.val, r.draws)
    /\ UNCHANGED <<debugAssertions, budget0, calls>>

\* RunningStatsStore::new / add_suffix: a fresh instance, every cache field None.
NewStore ==
    /\ cache' = EmptyCache
    /\ last' = Called("new", 0, "ok", 0, 0)
    /\ UNCHANGED <<storage, debugAssertions, pending, finalized, budget0, charged, cleared,
                   calls>>

\* The caller submits the next observation of its feed.
AddObservation ==
    /\ pending # << >>
    /\ Return("add_observation", 0, add_observation(cache, storage, Head(pending)))
    /\ pending' = Tail(pending)
    /\ UNCHANGED <<finalized, charged, cleared>>

SetStatus ==
    \E status \in {CollectingData, CalculatingStats} :
       /\ Return("set_status", status, set_status(cache, storage, status))
       /\ finalized' = (finalized \/ (status = CalculatingStats
                                        /\ set_status(cache, storage, status).outcome = "ok"))
       /\ UNCHANGED <<pending, charged, cleared>>

Clear ==
    /\ cleared < MaxClears
    /\ Return("clear", 0, clear(cache, storage))
    /\ cleared' = cleared + 1
    /\ UNCHANGED <<pending, finalized, charged>>

\* The results a query can return over all draws of the random source: one
\* result when the call returns before its first draw.
CountResults ==
    IF fuzzy_count(cache, storage, debugAssertions, <<0, 0>>).draws = 0
    THEN {fuzzy_count(cache, storage, debugAssertions, <<0, 0>>)}
    ELSE {fuzzy_count(cache, storage, debugAssertions, d) : d \in [1 .. 2 -> Draws]}

LaplaceResults(scale, dbg) == {laplace(scale, d1, d2, dbg) : d1 \in Draws, d2 \in Draws}

AverageResults ==
    LET p == average_checked(cache, storage, debugAssertions) IN
    IF IsSome(p.ret) THEN {Unwrap(p.ret)}
    ELSE {average_noised(p, storage, debugAssertions, n1, n2) :
             n1 \in LaplaceResults(p.scale, debugAssertions),
             n2 \in LaplaceResults(p.scale1.val, debugAssertions)}

FuzzyCount ==
    /\ charged < MaxCharged
    /\ \E r \in CountResults :
          /\ Return("fuzzy_count", 0, r)
          /\ charged' = IF r.outcome = "ok" THEN charged + 1 ELSE charged
    /\ UNCHANGED <<pending, finalized, cleared>>

FuzzyAverage ==
    /\ charged < MaxCharged
    /\ \E r \in AverageResults :
          /\ Return("fuzzy_average", 0, r)
          /\ charged' = IF r.outcome = "ok" THEN charged + 2 ELSE charged
    /\ UNCHANGED <<pending, finalized, cleared>>

Next ==
    \/ NewStore
    \/ AddObservation
    \/ SetStatus
    \/ Clear
    \/ FuzzyCount
    \/ FuzzyAverage

Spec == Init /\ [][Next]_vars

\* ------------------------------------------------- the fields, call by call
\* A session as an earlier run left it in the storage: the keys that are set.
Stored(keys) == [f \in Fields |-> IF f \in DOMAIN keys THEN Some(keys[f]) ELSE None]

\* Zero, the minimum, the maximum and a mid-range value of I32F32.
Representative == {0, MinNarrow, MaxNarrow, (5 * One) \div 2}

\* Byte strings of a wrong length: the encoding less its first byte, and the
\* encoding with one byte more.
Short(bytes) == Tail(bytes)
Long(bytes) == <<0>> \o bytes

\* The stored sessions: never used; the sum at the top of I64F64; the count
\* at the top of u32; the sum a byte short; every key a byte short; every key
\* a byte long; a status byte that is no status (a status byte has 256 values:
\* 2 stands for those above 1).
StoredSessions ==
    {Stored(<< >>),
     Stored("count" :> U32ToBe(1) @@ "sum" :> WideToBe(MaxWide - WideOne)
            @@ "ub" :> NarrowToBe(MaxNarrow) @@ "lb" :> NarrowToBe(MaxNarrow)),
     Stored("count" :> U32ToBe(MaxU32) @@ "sum" :> WideToBe(MaxU32 * One)
            @@ "ub" :> NarrowToBe(One) @@ "lb" :> NarrowToBe(One)),
     Stored("count" :> U32ToBe(1) @@ "sum" :> Short(WideToBe(WideOne))),
     Stored("count" :> Short(U32ToBe(1)) @@ "sum" :> Short(WideToBe(WideOne))
            @@ "ub" :> Short(NarrowToBe(One)) @@ "lb" :> Short(NarrowToBe(One))
            @@ "epsilon" :> Short(NarrowToBe(One)) @@ "a-sen" :> Short(NarrowToBe(One))
            @@ "budget" :> Short(NarrowToBe(One)) @@ "status" :> Short(<<STATUS_COLLECTING_DATA>>)),
     Stored("count" :> Long(U32ToBe(1)) @@ "sum" :> Long(WideToBe(WideOne))
            @@ "ub" :> Long(NarrowToBe(One)) @@ "lb" :> Long(NarrowToBe(One))
            @@ "epsilon" :> Long(NarrowToBe(One)) @@ "a-sen" :> Long(NarrowToBe(One))
            @@ "budget" :> Long(NarrowToBe(One)) @@ "status" :> Long(<<STATUS_CALCULATING_STATS>>)),
     Stored("count" :> U32ToBe(1) @@ "status" :> <<2>>)}

InitFields ==
    /\ storage \in StoredSessions
    /\ cache = EmptyCache
    /\ debugAssertions = FALSE
    /\ pending = <<3 * One>>
    /\ last = Called("new", 0, "ok", 0, 0)
    /\ finalized = FALSE
    /\ budget0 = PBudget
    /\ charged = 0
    /\ cleared = 0
    /\ calls = 0

\* One call on the fields returns.
Field(op, arg, r) ==
    /\ calls < MaxCalls
    /\ storage' = r.storage
    /\ cache' = CacheAfter(cache, storage, r.read)
    /\ last' = Called(op, arg, r.outcome, r.val, 0)
    /\ calls' = calls + 1
    /\ UNCHANGED <<debugAssertions, pending, finalized, budget0, charged, cleared>>

\* RunningStatsStore::new with its three arguments.
Construct ==
    /\ calls < MaxCalls
    /\ \E e \in {None, Some(2 * One)}, s \in {None, Some(3 * One)}, b \in {None, Some(3 * One)} :
          /\ cache' = new(e, s, b)
          /\ last' = Called("new", <<e, s, b>>, "ok", 0, 0)
    /\ calls' = calls + 1
    /\ UNCHANGED <<storage, debugAssertions, pending, finalized, budget0, charged, cleared>>

\* The public getters: is_empty for the count, the getter of every other field.
FieldGet(c, st, f) ==
    IF f = "count" THEN is_empty(c, st)
    ELSE Ret(IF Getter(c, st, f).err THEN "DecodeError" ELSE "ok",
             Getter(c, st, f).val, {f}, st, 0)

ReadField == \E f \in Fields : Field("get", f, FieldGet(cache, storage, f))

SetEpsilon ==
    \E v \in Representative : Field("set_epsilon", v, Ret("ok", 0, {}, set_epsilon(storage, v), 0))

SetPrivacyBudget ==
    \E v \in Representative :
       Field("set_privacy_budget", v, Ret("ok", 0, {}, set_privacy_budget(storage, v), 0))

SetAverageSensitivity ==
    \E o \in {None} \cup {Some(v) : v \in Representative} :
       Field("set_average_sensitivity", o,
             Ret("ok", 0, {}, set_average_sensitivity(storage, o), 0))

NextFields ==
    \/ Construct
    \/ ReadField
    \/ SetEpsilon
    \/ SetPrivacyBudget
    \/ SetAverageSensitivity
    \/ AddObservation

SpecFields == InitFields /\ [][NextFields]_vars

\* The operations of a session together with reads of its fields through the
\* same instance.
InitFrame ==
    /\ storage = Stored("budget" :> NarrowToBe(2 * One))
    /\ cache = EmptyCache
    /\ debugAssertions = TRUE
    /\ pending = <<3 * One, 5 * One>>
    /\ last = Called("new", 0, "ok", 0, 0)
    /\ finalized = FALSE
    /\ budget0 = PBudget
    /\ charged = 0
    /\ cleared = 0
    /\ calls = 0

NextFrame ==
    \/ NewStore
    \/ AddObservation
    \/ SetStatus
    \/ FuzzyCount
    \/ FuzzyAverage
    \/ ReadField

SpecFrame == InitFrame /\ [][NextFrame]_vars

\* ------------------------------------------------------- stats.rs records
\* RunningStats::into_stored: the count and the status as they are, every
\* fixed-point field as its big-endian bytes.
into_stored(self) ==
    [count |-> self.count,
     sum |-> WideToBe(self.sum),
     upper_bound |-> NarrowToBe(self.upper_bound),
     lower_bound |-> NarrowToBe(self.lower_bound),
     epsilon |-> NarrowToBe(self.epsilon),
     sensitivity_for_average |->
        IF IsSome(self.sensitivity_for_average)
        THEN Some(NarrowToBe(Unwrap(self.sensitivity_for_average))) ELSE None,
     privacy_budget |-> NarrowToBe(self.privacy_budget),
     status |-> self.status]

\* StoredRunningStats::into_humanized: an error when a byte string does not
\* have its field's width.
into_humanized(self) ==
    IF \/ Len(self.sum) # WideBytes
       \/ Len(self.upper_bound) # NarrowBytes
       \/ Len(self.lower_bound) # NarrowBytes
       \/ Len(self.epsilon) # NarrowBytes
       \/ /\ IsSome(self.sensitivity_for_average)
          /\ Len(Unwrap(self.sensitivity_for_average)) # NarrowBytes
       \/ Len(self.privacy_budget) # NarrowBytes
    THEN [err |-> TRUE, val |-> 0]
    ELSE [err |-> FALSE,
          val |-> [count |-> self.count,
                   sum |-> WideFromBe(self.sum),
                   upper_bound |-> NarrowFromBe(self.upper_bound),
                   lower_bound |-> NarrowFromBe(self.lower_bound),
                   epsilon |-> NarrowFromBe(self.epsilon),
                   sensitivity_for_average |->
                      IF IsSome(self.sensitivity_for_average)
                      THEN Some(NarrowFromBe(Unwrap(self.sensitivity_for_average)))
                      ELSE None,
                   privacy_budget |-> NarrowFromBe(self.privacy_budget),
                   status |-> self.status]]

\* Zero, the minimum, the maximum and a mid-range value of I64F64.
RepresentativeWide == {0, MinWide, MaxWide, (5 * WideOne) \div 2}

\* RunningStats records of representative values: the fixed-point fields all
\* zero, all at the minimum, all at the maximum or all mid-range.
StatsSamples ==
    {[count |-> n, sum |-> p[2], upper_bound |-> p[1], lower_bound |-> p[1],
      epsilon |-> p[1], privacy_budget |-> p[1],
      sensitivity_for_average |-> IF o THEN Some(p[1]) ELSE None,
      status |-> s] :
        n \in {0, MaxU32},
        p \in {<<0, 0>>, <<MinNarrow, MinWide>>, <<MaxNarrow, MaxWide>>,
               <<(5 * One) \div 2, (5 * WideOne) \div 2>>},
        o \in BOOLEAN,
        s \in {STATUS_COLLECTING_DATA, STATUS_CALCULATING_STATS}}

\* ------------------------------------------------- the encodings, call by call
InitCodec ==
    /\ storage = Stored(<< >>)
    /\ cache = EmptyCache
    /\ debugAssertions = FALSE
    /\ pending = << >>
    /\ last = Called("new", 0, "ok", 0, 0)
    /\ finalized = FALSE
    /\ budget0 = PBudget
    /\ charged = 0
    /\ cleared = 0
    /\ calls = 0

\* The private setters of the sum and of the bounds, with any argument.
SetSum ==
    \E v \in RepresentativeWide : Field("set_sum", v, Ret("ok", 0, {}, set_sum(storage, v), 0))

SetUpperBound ==
    \E v \in Representative :
       Field("set_upper_bound", v, Ret("ok", 0, {}, set_upper_bound(storage, v), 0))

SetLowerBound ==
    \E v \in Representative :
       Field("set_lower_bound", v, Ret("ok", 0, {}, set_lower_bound(storage, v), 0))

\* A RunningStats record is stored and read back.
IntoHumanized ==
    \E stats \in StatsSamples :
       LET r == into_humanized(into_stored(stats))
       IN  Field("into_humanized", stats,
                 Ret(IF r.err THEN "DecodeError" ELSE "ok", r.val, {}, storage, 0))

NextCodec ==
    \/ Construct
    \/ ReadField
    \/ SetEpsilon
    \/ SetPrivacyBudget
    \/ SetSum
    \/ SetUpperBound
    \/ SetLowerBound
    \/ IntoHumanized

SpecCodec == InitCodec /\ [][NextCodec]_vars

\* ------------------------------------------------ RunningStats, in memory
DP_COLLECTING_DATA == 0
DP_CALCULATING_STATS == 1

RunningStats_new(epsilon, sensitivity_for_average, privacy_budget) ==
    [count |-> 0, sum |-> 0, upper_bound |-> 0, lower_bound |-> 0,
     epsilon |-> epsilon, sensitivity_for_average |-> sensitivity_for_average,
     privacy_budget |-> privacy_budget, status |-> DP_COLLECTING_DATA]

\* RunningStats::add_observation(mut self, x): the Result, and self as it is
\* when the call returns (self is taken by value, so the caller's copy, if it
\* kept one, is not changed).
RunningStats_add_observation(self, x) ==
    LET counted == [self EXCEPT !.count = self.count + 1]
        sum == WideAdd(self.sum, WideFromNarrow(x))
        summed == [counted EXCEPT !.sum = sum.val]
        upper == IF summed.upper_bound < x THEN [summed EXCEPT !.upper_bound = x] ELSE summed
        lower == IF upper.lower_bound > x THEN [upper EXCEPT !.lower_bound = x] ELSE upper
    IN
    IF self.status # DP_CALCULATING_STATS THEN [outcome |-> "InvalidState", self |-> self]
    ELSE IF self.count + 1 > MaxU32 THEN [outcome |-> "Overflow", self |-> self]
    ELSE IF sum.ovf THEN [outcome |-> "Overflow", self |-> counted]
    ELSE [outcome |-> "ok", self |-> lower]

\* `cache` holds the caller's RunningStats; the storage is not used.
InitStats ==
    /\ storage = Stored(<< >>)
    /\ cache = RunningStats_new(One, None, One)
    /\ debugAssertions = FALSE
    /\ pending = << >>
    /\ last = Called("new", 0, "ok", 0, 0)
    /\ finalized = FALSE
    /\ budget0 = One
    /\ charged = 0
    /\ cleared = 0
    /\ calls = 0

\* The caller's RunningStats becomes `stats`, the call `op` having returned.
Stats(op, arg, outcome, val, stats) ==
    /\ calls < MaxCalls
    /\ cache' = stats
    /\ last' = Called(op, arg, outcome, val, 0)
    /\ calls' = calls + 1
    /\ UNCHANGED <<storage, debugAssertions, pending, finalized, budget0, charged, cleared>>

StatsNew ==
    \E e \in {One, 2 * One}, s \in {None, Some(3 * One)} :
       Stats("RunningStats::new", <<e, s>>, "ok", 0, RunningStats_new(e, s, 3 * One))

\* A stored record is loaded: StoredRunningStats::into_humanized.
StatsLoad ==
    \E stats \in StatsSamples :
       /\ ~into_humanized(into_stored(stats)).err
       /\ Stats("into_humanized", 0, "ok", 0, into_humanized(into_stored(stats)).val)

\* add_observation on a clone of the caller's RunningStats.
StatsAddObservation ==
    \E x \in Representative :
       LET r == RunningStats_add_observation(cache, x)
       IN  Stats("RunningStats::add_observation", x, r.outcome, 0, cache)

NextStats ==
    \/ StatsNew
    \/ StatsLoad
    \/ StatsAddObservation

SpecStats == InitStats /\ [][NextStats]_vars

\* ------------------------------------------------------- sibling sessions
\* The storage keys, byte by byte (a key's bytes are kept whole: ASCII).
COUNT_KEY == <<99, 111, 117, 110, 116>>
SUM_KEY == <<115, 117, 109>>
UPPER_BOUND_KEY == <<117, 98>>
LOWER_BOUND_KEY == <<108, 98>>
EPSILON_KEY == <<101, 112, 115, 105, 108, 111, 110>>
SENSITIVITY_FOR_AVG_KEY == <<97, 45, 115, 101, 110>>
PRIVACY_BUDGET_KEY == <<98, 117, 100, 103, 101, 116>>
STATUS_KEY == <<115, 116, 97, 116, 117, 115>>

FieldKey(f) ==
    CASE f = "count" -> COUNT_KEY
      [] f = "sum" -> SUM_KEY
      [] f = "ub" -> UPPER_BOUND_KEY
      [] f = "lb" -> LOWER_BOUND_KEY
      [] f = "epsilon" -> EPSILON_KEY
      [] f = "a-sen" -> SENSITIVITY_FOR_AVG_KEY
      [] f = "budget" -> PRIVACY_BUDGET_KEY
      [] f = "status" -> STATUS_KEY

\* cosmwasm_storage::to_length_prefixed: the length in two bytes, big-endian,
\* then the bytes.
to_length_prefixed(bytes) == <<Len(bytes) \div 256, Len(bytes) % 256>> \o bytes

\* A store instance with the namespace and the prefix it holds.
Root == [namespace |-> <<100, 112>>, prefix |-> None, fields |-> EmptyCache]

\* add_suffix without its suffix: the sessions fall on the root's keys.
add_suffix_unsuffixed(self, suffix) ==
    [namespace |-> self.namespace,
     prefix |-> Some(IF IsSome(self.prefix) THEN Unwrap(self.prefix) ELSE self.namespace),
     fields |-> EmptyCache]

add_suffix(self, suffix) ==
    [namespace |-> self.namespace,
     prefix |-> Some((IF IsSome(self.prefix) THEN Unwrap(self.prefix) ELSE self.namespace)
                     \o to_length_prefixed(suffix)),
     fields |-> EmptyCache]

as_slice(self) == IF IsSome(self.prefix) THEN Unwrap(self.prefix) ELSE self.namespace

\* [self.as_slice(), KEY].concat()
KeyOf(self, f) == as_slice(self) \o FieldKey(f)

\* The storage shared by the sessions is a function of the keys that are set.
EmptyStore == [k \in {} |-> << >>]

\* storage.get through an instance: its session's eight fields.
View(store, self) ==
    [f \in Fields |-> IF KeyOf(self, f) \in DOMAIN store
                      THEN Some(store[KeyOf(self, f)]) ELSE None]

\* storage.set through an instance, of the fields set in `fields`.
Write(store, self, fields) ==
    LET set == {f \in Fields : IsSome(fields[f])} IN
    [k \in DOMAIN store \cup {KeyOf(self, f) : f \in set} |->
        IF \E f \in set : KeyOf(self, f) = k
        THEN Unwrap(fields[CHOOSE f \in set : KeyOf(self, f) = k])
        ELSE store[k]]

Suffixes == << << >>, <<97>>, <<98>>, <<97, 98>> >>

\* Two sessions of one root store, by add_suffix with distinct suffixes.
InitSiblings ==
    /\ \E a \in DOMAIN Suffixes, b \in DOMAIN Suffixes :
          /\ a < b
          /\ cache = <<add_suffix(Root, Suffixes[a]), add_suffix(Root, Suffixes[b])>>
    /\ storage = EmptyStore
    /\ debugAssertions = FALSE
    /\ pending = <<3 * One, 5 * One>>
    /\ last = Called("new", 0, "ok", 0, 0)
    /\ finalized = FALSE
    /\ budget0 = One
    /\ charged = 0
    /\ cleared = 0
    /\ calls = 0

\* A call through the instance i returns.
Sibling(i, op, r) ==
    /\ calls < MaxSiblingCalls
    /\ storage' = Write(storage, cache[i], r.storage)
    /\ cache' = [cache EXCEPT ![i].fields =
                     CacheAfter(cache[i].fields, View(storage, cache[i]), r.read)]
    /\ last' = Called(op, i, r.outcome, r.val, r.draws)
    /\ calls' = calls + 1
    /\ UNCHANGED <<debugAssertions, finalized, budget0, charged, cleared>>

SiblingAdd ==
    /\ pending # << >>
    /\ \E i \in 1 .. 2 :
          Sibling(i, "add_observation",
                  add_observation(cache[i].fields, View(storage, cache[i]), Head(pending)))
    /\ pending' = Tail(pending)

SiblingSetStatus ==
    /\ \E i \in 1 .. 2, status \in {CollectingData, CalculatingStats} :
          Sibling(i, "set_status", set_status(cache[i].fields, View(storage, cache[i]), status))
    /\ UNCHANGED pending

SiblingSetters ==
    /\ \E i \in 1 .. 2 :
          \/ Sibling(i, "set_epsilon",
                     Ret("ok", 0, {}, set_epsilon(View(storage, cache[i]), 2 * One), 0))
          \/ Sibling(i, "set_privacy_budget",
                     Ret("ok", 0, {}, set_privacy_budget(View(storage, cache[i]), 3 * One), 0))
          \/ Sibling(i, "set_average_sensitivity",
                     Ret("ok", 0, {}, set_average_sensitivity(View(storage, cache[i]), Some(One)), 0))
    /\ UNCHANGED pending

SiblingClear ==
    /\ \E i \in 1 .. 2 : Sibling(i, "clear", clear(cache[i].fields, View(storage, cache[i])))
    /\ UNCHANGED pending

SiblingCount ==
    /\ \E i \in 1 .. 2 :
          \E r \in {fuzzy_count(cache[i].fields, View(storage, cache[i]), debugAssertions, d) :
                        d \in [1 .. 2 -> Draws]} :
             Sibling(i, "fuzzy_count", r)
    /\ UNCHANGED pending

NextSiblings ==
    \/ SiblingAdd
    \/ SiblingSetStatus
    \/ SiblingSetters
    \/ SiblingClear
    \/ SiblingCount

SpecSiblings == InitSiblings /\ [][NextSiblings]_vars

\* ------------------------------------------------------------ two replicas
\* Two replicas of one session: each has its own copy of the storage and its
\* own instance, and both are given the same calls with the same draws.
\* storage, cache and last hold one value for each replica.
Replicas == 1 .. 2

InitReplicas ==
    /\ storage = [i \in Replicas |-> Stored(<< >>)]
    /\ cache = [i \in Replicas |-> new(None, None, None)]
    /\ debugAssertions \in BOOLEAN
    /\ pending = <<3 * One, 5 * One>>
    /\ last = [i \in Replicas |-> Called("new", 0, "ok", 0, 0)]
    /\ finalized = FALSE
    /\ budget0 = One
    /\ charged = 0
    /\ cleared = 0
    /\ calls = 0

\* One call returns on both replicas; r[i] is what it returns on replica i.
Replicated(op, arg, r) ==
    /\ calls < MaxReplicaCalls
    /\ storage' = [i \in Replicas |-> r[i].storage]
    /\ cache' = [i \in Replicas |-> CacheAfter(cache[i], storage[i], r[i].read)]
    /\ last' = [i \in Replicas |-> Called(op, arg, r[i].outcome, r[i].val, r[i].draws)]
    /\ calls' = calls + 1
    /\ UNCHANGED <<debugAssertions, finalized, budget0, charged, cleared>>

\* A replica restarts: it goes on with a fresh instance (RunningStatsStore::new)
\* over the storage it has.
ReplicaRestart ==
    \E i \in Replicas :
       /\ cache' = [cache EXCEPT ![i] = new(None, None, None)]
       /\ UNCHANGED <<storage, debugAssertions, pending, last, finalized, budget0, charged,
                      cleared, calls>>

ReplicaAdd ==
    /\ pending # << >>
    /\ Replicated("add_observation", Head(pending),
                  [i \in Replicas |-> add_observation(cache[i], storage[i], Head(pending))])
    /\ pending' = Tail(pending)

ReplicaSetStatus ==
    \E status \in {CollectingData, CalculatingStats} :
       /\ Replicated("set_status", status,
                     [i \in Replicas |-> set_status(cache[i], storage[i], status)])
       /\ UNCHANGED pending

ReplicaFuzzyCount ==
    \E d \in [1 .. 2 -> Draws] :
       /\ Replicated("fuzzy_count", d,
                     [i \in Replicas |-> fuzzy_count(cache[i], storage[i], debugAssertions, d)])
       /\ UNCHANGED pending

ReplicaFuzzyAverage ==
    \E d \in [1 .. 4 -> Draws] :
       /\ Replicated("fuzzy_average", d,
                     [i \in Replicas |-> fuzzy_average(cache[i], storage[i], debugAssertions, d)])
       /\ UNCHANGED pending

NextReplicas ==
    \/ ReplicaRestart
    \/ ReplicaAdd
    \/ ReplicaSetStatus
    \/ ReplicaFuzzyCount
    \/ ReplicaFuzzyAverage

SpecReplicas == InitReplicas /\ [][NextReplicas]_vars

\* ------------------------------------------------------ the random source
\* The queries of a finalized session over a stream of draws: `pending` holds
\* the draws the random source is going to hand out (ChaChaRng::next_u32),
\* and a call takes the draws it consumes off the front.
InitRng ==
    /\ storage = Stored("count" :> U32ToBe(2) @@ "sum" :> WideToBe(8 * WideOne)
                        @@ "ub" :> NarrowToBe(5 * One) @@ "lb" :> NarrowToBe(3 * One)
                        @@ "budget" :> NarrowToBe(3 * One)
                        @@ "status" :> <<STATUS_CALCULATING_STATS>>)
    /\ cache = EmptyCache
    /\ debugAssertions \in BOOLEAN
    /\ pending \in [1 .. StreamLen -> Draws]
    /\ last = Called("new", 0, "ok", 0, 0)
    /\ finalized = TRUE
    /\ budget0 = PBudget
    /\ charged = 0
    /\ cleared = 0
    /\ calls = 0

\* A query returns, the random source advanced by the draws it took.
Drawn(op, r) ==
    /\ calls < MaxCalls
    /\ storage' = r.storage
    /\ cache' = CacheAfter(cache, storage, r.read)
    /\ last' = Called(op, 0, r.outcome, r.val, r.draws)
    /\ pending' = SubSeq(pending, r.draws + 1, Len(pending))
    /\ calls' = calls + 1
    /\ UNCHANGED <<debugAssertions, finalized, budget0, charged, cleared>>

RngCount ==
    /\ Len(pending) >= 2
    /\ Drawn("fuzzy_count", fuzzy_count(cache, storage, debugAssertions, pending))

RngAverage ==
    /\ Len(pending) >= 4
    /\ Drawn("fuzzy_average", fuzzy_average(cache, storage, debugAssertions, pending))

NextRng ==
    \/ RngCount
    \/ RngAverage

SpecRng == InitRng /\ [][NextRng]_vars

\* The average of a finalized session whose sensitivity override is set
\* through the same instance.
NextSensitivity ==
    \/ SetAverageSensitivity
    \/ RngAverage

SpecSensitivity == InitRng /\ [][NextSensitivity]_vars

\* A session whose two observations are the least and the greatest values of
\* I32F32, in any order and with repetition.
InitRange ==
    /\ storage = Stored("budget" :> NarrowToBe(2 * One))
    /\ cache = EmptyCache
    /\ debugAssertions \in BOOLEAN
    /\ pending \in [1 .. 2 -> {MinNarrow, MaxNarrow}]
    /\ last = Called("new", 0, "ok", 0, 0)
    /\ finalized = FALSE
    /\ budget0 = PBudget
    /\ charged = 0
    /\ cleared = 0
    /\ calls = 0

SpecRange == InitRange /\ [][Next]_vars

\* ------------------------------------------------------ integer segments
\* integer_geom.rs. The coordinates are i64; on the grid no difference or
\* product comes near the limits of i64, so the arithmetic is that of the
\* integers.
IntegerPoint2D == [x : 0 .. GridMax, y : 0 .. GridMax]

\* Twice the area of the triangle abc.
signed_area(a, b, c) ==
    LET p == [x |-> b.x - a.x, y |-> b.y - a.y]
        q == [x |-> c.x - a.x, y |-> c.y - a.y]
    IN  p.x * q.y - q.x * p.y

\* Some(true) counterclockwise, Some(false) clockwise, None if colinear.
is_counterclockwise(a, b, c) ==
    LET area == signed_area(a, b, c) IN
    IF area > 0 THEN Some(TRUE)
    ELSE IF area < 0 THEN Some(FALSE)
    ELSE None

\* IntegerLineSegment2D::new: the segment, or an error when the endpoints
\* are the same point.
IntegerLineSegment2D_new(endpoint1, endpoint2) ==
    IF endpoint1 = endpoint2
    THEN [outcome |-> "Invalid", segment |-> None]
    ELSE [outcome |-> "ok", segment |-> Some(<<endpoint1, endpoint2>>)]

\* self.intersects(other); endpoints.0 is self[1], endpoints.1 is self[2].
intersects(self, other) ==
    /\ is_counterclockwise(self[1], other[2], self[1])
          # is_counterclockwise(self[1], other[1], self[2])
    /\ is_counterclockwise(other[1], self[1], other[2])
          # is_counterclockwise(other[1], self[2], other[2])

\* The caller holds the segments it has constructed in `pending`.
InitGeom ==
    /\ storage = Stored(<< >>)
    /\ cache = EmptyCache
    /\ debugAssertions = FALSE
    /\ pending = << >>
    /\ last = Called("new", << >>, "ok", FALSE, 0)
    /\ finalized = FALSE
    /\ budget0 = 0
    /\ charged = 0
    /\ cleared = 0
    /\ calls = 0

SegmentNew ==
    /\ Len(pending) < 2
    /\ \E endpoint1 \in IntegerPoint2D, endpoint2 \in IntegerPoint2D :
          LET r == IntegerLineSegment2D_new(endpoint1, endpoint2) IN
          /\ pending' = IF r.outcome = "ok" THEN Append(pending, Unwrap(r.segment))
                        ELSE pending
          /\ last' = Called("IntegerLineSegment2D::new", <<endpoint1, endpoint2>>,
                            r.outcome, FALSE, 0)
    /\ UNCHANGED <<storage, cache, debugAssertions, finalized, budget0, charged, cleared,
                   calls>>

\* One of the two segments is asked whether it intersects the other.
SegmentIntersects ==
    /\ Len(pending) = 2
    /\ \E i \in 1 .. 2 :
          last' = Called("intersects", <<pending[i], pending[3 - i]>>, "ok",
                         intersects(pending[i], pending[3 - i]), 0)
    /\ UNCHANGED <<storage, cache, debugAssertions, pending, finalized, budget0, charged,
                   cleared, calls>>

NextGeom ==
    \/ SegmentNew
    \/ SegmentIntersects

SpecGeom == InitGeom /\ [][NextGeom]_vars

\* ------------------------------------------------------------- properties
\* The Laplace samples of a scale that laplace returns without panicking.
Samples(scale) ==
    {n.val : n \in {m \in LaplaceResults(scale, debugAssertions) : ~m.panic}}

\* C1: over add_observation, set_status, fuzzy_count and fuzzy_average the
\* persisted privacy_budget is never negative and no call raises it; a query
\* whose cost exceeds the persisted budget does not succeed and leaves the
\* budget as it was.
BudgetNeverNegativeNorRaised ==
    [][cleared' = 0 =>
          /\ PBudget' >= 0
          /\ PBudget' <= PBudget
          /\ (\/ last'.op = "fuzzy_count" /\ PEpsilon > PBudget
              \/ last'.op = "fuzzy_average" /\ 2 * PEpsilon > PBudget)
                => (last'.outcome # "ok" /\ PBudget' = PBudget)]_vars

\* C2: after n successful fuzzy_count and m successful fuzzy_average calls,
\* through one instance or through fresh ones, the persisted budget is the
\* initial budget less n * epsilon less m * 2 * epsilon.
BudgetIsInitialLessCharges ==
    PBudget = budget0 - charged * PEpsilon

\* C3: Scenario A (epsilon 1, budget 2, observations 3, 5, 7): when
\* set_status(CalculatingStats) succeeds after the three observations, count is
\* 3 and sum is 15; the fuzzy_count that follows succeeds and leaves budget 1;
\* the fuzzy_average after it fails as budget-exhausted and leaves budget 1.
ScenarioA ==
    [][(budget0 = 2 * One /\ PEpsilon = One /\ cleared' = 0 /\ pending' = << >>) =>
          /\ (~finalized /\ finalized') => (PCount' = 3 /\ PSum' = 15 * WideOne)
          /\ (finalized /\ charged = 0 /\ last'.op = "fuzzy_count")
                => (last'.outcome = "ok" /\ PBudget' = One)
          /\ (finalized /\ charged = 1 /\ last'.op = "fuzzy_average")
                => (last'.outcome = "BudgetExhausted" /\ PBudget' = One)]_vars

\* C4: once set_status(CalculatingStats) has succeeded, every add_observation,
\* through the same instance or a fresh one, fails with the invalid-state error
\* and changes no persisted field.
NoObservationAfterFinalize ==
    [][(finalized /\ last'.op = "add_observation")
          => (last'.outcome = "InvalidState" /\ storage' = storage)]_vars

\* C5: once set_status(CalculatingStats) has succeeded, every
\* set_status(CollectingData) fails with the invalid-state error and the
\* persisted status is CalculatingStats ever after.
StatusIsOneWay ==
    [][finalized =>
          /\ PStatus' = CalculatingStats
          /\ (last'.op = "set_status" /\ last'.arg = CollectingData)
                => last'.outcome = "InvalidState"]_vars

\* C6: set_status(CalculatingStats) succeeds exactly when the persisted count
\* is above 0; with count 0 it fails with the empty-dataset error and writes
\* nothing.
FinalizeNeedsObservation ==
    [][(last'.op = "set_status" /\ last'.arg = CalculatingStats) =>
          /\ (last'.outcome = "ok") = (PCount > 0)
          /\ PCount = 0 => (last'.outcome = "EmptyDataset" /\ storage' = storage)]_vars

\* C7: while the persisted status is CollectingData or the persisted count is
\* 0, fuzzy_count and fuzzy_average fail with an error, change no persisted
\* field and consume no draw.
QueryNeedsFinalizedData ==
    [][(/\ last'.op \in {"fuzzy_count", "fuzzy_average"}
        /\ (PStatus = CollectingData \/ PCount = 0))
          => /\ last'.outcome \in {"InvalidState", "EmptyDataset"}
             /\ storage' = storage
             /\ last'.draws = 0]_vars

\* C8: with status CalculatingStats and count above 0, a fuzzy_average called
\* while the persisted budget is below 2 * epsilon fails as budget-exhausted,
\* consumes no draw and writes nothing.
AverageChecksFullCost ==
    [][(/\ last'.op = "fuzzy_average"
        /\ PStatus = CalculatingStats /\ PCount > 0
        /\ PBudget < 2 * PEpsilon)
          => /\ last'.outcome = "BudgetExhausted"
             /\ last'.draws = 0
             /\ storage' = storage]_vars

\* C9: with status CalculatingStats and count above 0, fuzzy_count succeeds
\* exactly when the persisted budget is at least epsilon; a successful call
\* returns count plus one Laplace sample of scale 1 / epsilon and lowers the
\* persisted budget by epsilon.
CountSpendsEpsilon ==
    [][(last'.op = "fuzzy_count" /\ PStatus = CalculatingStats /\ PCount > 0) =>
          /\ (last'.outcome = "ok") = (PBudget >= PEpsilon)
          /\ last'.outcome = "ok" =>
                /\ PBudget' = PBudget - PEpsilon
                /\ last'.val \in {FxAdd(NarrowFromU32(PCount).val, n).val :
                                     n \in Samples(FxDiv(One, PEpsilon).val)}]_vars

\* C10: a successful fuzzy_average returns (sum + n1) / (count + n2) for a
\* Laplace sample n1 of scale (upper - lower) / epsilon and a Laplace sample n2
\* of scale 1 / epsilon, and lowers the persisted budget by 2 * epsilon, once; a
\* call that does not succeed writes nothing.  Scenario B (epsilon 1, budget 3,
\* observations 10, 20): the first query after finalize, a fuzzy_average,
\* succeeds and leaves budget 1.
AverageSpendsTwiceEpsilon ==
    [][last'.op = "fuzzy_average" =>
          /\ last'.outcome = "ok" =>
                /\ PBudget' = PBudget - 2 * PEpsilon
                /\ last'.val \in
                      {NarrowFromWide(WideDiv(WideAdd(PSum, WideFromNarrow(n1)).val,
                                              WideFromNarrow(FxAdd(NarrowFromU32(PCount).val,
                                                                   n2).val)).val).val :
                          n1 \in Samples(FxDiv(FxSub(PUpper, PLower).val, PEpsilon).val),
                          n2 \in {n \in Samples(FxDiv(One, PEpsilon).val) :
                                     FxAdd(NarrowFromU32(PCount).val, n).val # 0}}
          /\ last'.outcome # "ok" => storage' = storage
          /\ (/\ budget0 = 3 * One /\ PEpsilon = One /\ cleared = 0
              /\ pending = << >> /\ finalized /\ charged = 0)
                => (last'.outcome = "ok" /\ PBudget' = One)]_vars

\* C11: an add_observation that fails because the count or the sum would
\* overflow leaves every persisted field, the count too, as it was.
OverflowWritesNothing ==
    [][(last'.op = "add_observation" /\ last'.outcome = "Overflow")
          => storage' = storage]_vars

\* The outcomes that are error values (Err of StdResult).
ErrorValues == {"DecodeError", "InvalidState", "EmptyDataset", "BudgetExhausted", "Overflow"}

\* With the noise n1 on the sum and n2 on the count, the noisy count of the
\* fuzzy_average prepared as p is zero, or its quotient does not fit.
QuotientLost(p, n1, n2) ==
    LET noisy == FxAdd(NarrowFromU32(p.count).val, n2.val).val
        dp_sum == WideAdd(p.sum.val, WideFromNarrow(n1.val)).val
    IN  /\ ~n1.panic /\ ~n2.panic /\ ~p.sum.err
        /\ IF noisy = 0 THEN TRUE
           ELSE \/ WideDiv(dp_sum, WideFromNarrow(noisy)).ovf
                \/ NarrowFromWide(WideDiv(dp_sum, WideFromNarrow(noisy)).val).ovf

\* C12: a fuzzy_average whose noisy count is zero, or whose quotient is not
\* representable, returns an error value and leaves the persisted budget as
\* it was.
LostQuotientIsAnError ==
    [][(last'.op = "fuzzy_average" /\ last'.draws = 4) =>
          LET p == average_checked(cache, storage, debugAssertions) IN
          \A n1 \in LaplaceResults(p.scale, debugAssertions),
             n2 \in LaplaceResults(p.scale1.val, debugAssertions) :
               (/\ QuotientLost(p, n1, n2)
                /\ average_noised(p, storage, debugAssertions, n1, n2).outcome = last'.outcome
                /\ average_noised(p, storage, debugAssertions, n1, n2).val = last'.val
                /\ average_noised(p, storage, debugAssertions, n1, n2).storage = storage')
                  => (last'.outcome \in ErrorValues /\ PBudget' = PBudget)]_vars

\* C13: on a session for which no setter has been called, the instance that
\* new(namespace, Some(e), s, Some(b)) returns reads e as epsilon, s as the
\* sensitivity for averages and b as the privacy budget (the values the
\* queries are charged and limited by).
NewKeepsItsArguments ==
    [][(last.op = "new" /\ calls > 0 /\ last'.op = "get") =>
          /\ (last'.arg = "epsilon" /\ IsSome(last.arg[1]) /\ storage["epsilon"] = None)
                => (last'.outcome = "ok" /\ last'.val = Unwrap(last.arg[1]))
          /\ (last'.arg = "a-sen" /\ storage["a-sen"] = None)
                => (last'.outcome = "ok" /\ last'.val = last.arg[2])
          /\ (last'.arg = "budget" /\ IsSome(last.arg[3]) /\ storage["budget"] = None)
                => (last'.outcome = "ok" /\ last'.val = Unwrap(last.arg[3]))]_vars

\* C14: two sessions made by add_suffix with distinct suffixes have no storage
\* key in common, and a call through one of them leaves the eight fields read
\* through the other, and the other's instance, as they were.
SiblingKeysDisjoint ==
    \A f \in Fields, g \in Fields : KeyOf(cache[1], f) # KeyOf(cache[2], g)

SiblingsAreIndependent ==
    /\ []SiblingKeysDisjoint
    /\ [][\A i \in 1 .. 2 :
             last'.arg = i =>
                /\ View(storage', cache[3 - i]) = View(storage, cache[3 - i])
                /\ cache'[3 - i] = cache[3 - i]]_vars

\* Both sessions hold a sum of their own, and the second has just been written.
SiblingsBothWritten ==
    /\ last.op = "add_observation" /\ last.outcome = "ok" /\ last.arg = 2
    /\ IsSome(View(storage, cache[1])["sum"])
    /\ IsSome(View(storage, cache[2])["sum"])
    /\ View(storage, cache[1])["sum"] # View(storage, cache[2])["sum"]

\* C15: while the persisted status is CalculatingStats, set_status(CalculatingStats)
\* is rejected with the invalid-state error.
SecondFinalizeIsRejected ==
    [][(/\ PStatus = CalculatingStats
        /\ last'.op = "set_status" /\ last'.arg = CalculatingStats)
          => last'.outcome = "InvalidState"]_vars

\* The observations submitted so far: the session's feed less what is pending.
Submitted ==
    LET feed == (CHOOSE ses \in Sessions :
                    /\ ses.epsilon = storage["epsilon"]
                    /\ NarrowFromBe(Unwrap(ses.budget)) = budget0).feed
    IN  SubSeq(feed, 1, Len(feed) - Len(pending))

RECURSIVE SumOf(_)
SumOf(xs) == IF xs = << >> THEN 0 ELSE Head(xs) + SumOf(Tail(xs))

\* C16: after k successful add_observation calls x1 .. xk in status
\* CollectingData, through one instance or through fresh ones, the persisted
\* count is k, the sum x1 + .. + xk, the upper bound the largest and the
\* lower bound the smallest of them.
ObservationsAreSummed ==
    (~finalized /\ cleared = 0) =>
       /\ PCount = Len(Submitted)
       /\ PSum = WideFromNarrow(SumOf(Submitted))
       /\ Submitted # << >> =>
             /\ \E i \in DOMAIN Submitted : PUpper = Submitted[i]
             /\ \E i \in DOMAIN Submitted : PLower = Submitted[i]
             /\ \A i \in DOMAIN Submitted : PLower <= Submitted[i] /\ Submitted[i] <= PUpper

\* C17: get_avg_sensitivity returns Some(s) after set_average_sensitivity(Some(s)),
\* and None, without error, after set_average_sensitivity(None) or when the
\* sensitivity was never set.
SensitivityReadsBack ==
    [][(last'.op = "get" /\ last'.arg = "a-sen") =>
          /\ (calls > 0 /\ last.op = "set_average_sensitivity") =>
                (last'.outcome = "ok" /\ last'.val = last.arg)
          /\ storage["a-sen"] = None =>
                (last'.outcome = "ok" /\ last'.val = None)]_vars

\* C18: encoding then decoding a fixed-point field gives the value back, for
\* zero, the minimum, the maximum and a mid-range value: what set_epsilon,
\* set_privacy_budget, set_upper_bound, set_lower_bound or set_sum wrote is
\* what the matching getter of a fresh instance returns, and into_stored
\* followed by into_humanized returns the RunningStats it started from.
EncodingRoundTrips ==
    LET fresh == new(None, None, None) IN
    /\ last.op = "set_epsilon" => get_epsilon(fresh, storage) = Got(last.arg)
    /\ last.op = "set_privacy_budget" => get_privacy_budget(fresh, storage) = Got(last.arg)
    /\ last.op = "set_upper_bound" => get_upper_bound(fresh, storage) = Got(last.arg)
    /\ last.op = "set_lower_bound" => get_lower_bound(fresh, storage) = Got(last.arg)
    /\ last.op = "set_sum" => get_sum(fresh, storage) = Got(last.arg)
    /\ last.op = "into_humanized" => (last.outcome = "ok" /\ last.val = last.arg)

\* A negative value was written and a record of negative values converted.
MinimumRoundTripped ==
    /\ calls = MaxCalls
    /\ last.op = "into_humanized"
    /\ last.arg.sum = MinWide
    /\ last.arg.sensitivity_for_average = Some(MinNarrow)
    /\ storage["sum"] = Some(WideToBe(MinWide))
    /\ storage["lb"] = None

\* The stored bytes of field f are not an encoding of the field: they do not
\* have its width, or they are a status byte that is neither 0 nor 1.
Malformed(st, f) ==
    /\ IsSome(st[f])
    /\ \/ Len(Unwrap(st[f])) #
             (CASE f = "count" -> CountBytes
                [] f = "sum" -> WideBytes
                [] f = "status" -> 1
                [] OTHER -> NarrowBytes)
       \/ /\ f = "status"
          /\ U32FromBe(Unwrap(st[f])) \notin {STATUS_COLLECTING_DATA, STATUS_CALCULATING_STATS}

\* C19: reading a field whose stored bytes have a length other than the
\* field's width, or a status whose byte is neither 0 nor 1, returns a decode
\* error, writes nothing and leaves the field's cache entry empty.
MalformedReadsFail ==
    [][(last'.op = "get" /\ Malformed(storage, last'.arg)) =>
          /\ last'.outcome = "DecodeError"
          /\ storage' = storage
          /\ cache'[last'.arg] = None
          /\ cache' = cache]_vars

\* A status byte of 2 was read, and the read failed.
BadStatusByteRead ==
    /\ last.op = "get"
    /\ last.arg = "status"
    /\ last.outcome = "DecodeError"
    /\ storage["status"] = Some(<<2>>)
    /\ cache["status"] = None

\* C20: two replicas that start from the same persisted state and are given
\* the same calls with the same draws return the same values, errors
\* included, and hold the same persisted state after every call.
ReplicasAgree ==
    /\ storage[1] = storage[2]
    /\ last[1] = last[2]

\* C21: on one instance, after any sequence of operations, every getter
\* returns what is persisted under the field's key (the default when the key
\* is absent): the instance behaves like one without a cache.
CacheIsTransparent ==
    \A f \in Fields : Getter(cache, storage, f) = Getter(EmptyCache, storage, f)

\* C22: while the session is in status CollectingData no operation decreases
\* the persisted count, lowers the persisted upper bound or raises the
\* persisted lower bound.
CollectingOnlyWidens ==
    [][PStatus = CollectingData =>
          /\ get_count(EmptyCache, storage').val >= PCount
          /\ get_upper_bound(EmptyCache, storage').val >= PUpper
          /\ get_lower_bound(EmptyCache, storage').val <= PLower]_vars

\* The fields other than those in `own` are persisted as they were.
Keeps(own) == \A f \in Fields \ own : storage'[f] = storage[f]

\* C23: each operation writes its own fields only: add_observation at most
\* count, sum and the two bounds, fuzzy_count and fuzzy_average at most the
\* privacy budget, set_status at most the status, a getter or is_empty nothing.
WritesOwnFieldsOnly ==
    [][/\ last'.op = "add_observation" => Keeps({"count", "sum", "ub", "lb"})
       /\ last'.op \in {"fuzzy_count", "fuzzy_average"} => Keeps({"budget"})
       /\ last'.op = "set_status" => Keeps({"status"})
       /\ last'.op = "get" => Keeps({})]_vars

\* A query has debited the budget of a session whose fields were read.
DebitedAfterReads ==
    /\ last.op = "fuzzy_count"
    /\ last.outcome = "ok"
    /\ PBudget < budget0
    /\ PCount > 0
    /\ calls > 0

\* -scale * ln(u1) - (-scale * ln(u2)), u1 and u2 the uniform samples of the
\* draws d1 and d2; None when a logarithm is not defined.
NoiseOf(scale, d1, d2) ==
    LET l1 == ln(random_unit_interval(d1))
        l2 == ln(random_unit_interval(d2))
    IN  IF IsSome(l1) /\ IsSome(l2)
        THEN Some(FxSub(FxMul(FxNeg(scale).val, Unwrap(l1)).val,
                        FxMul(FxNeg(scale).val, Unwrap(l2)).val).val)
        ELSE None

TwoDraws(noise) == [panic |-> FALSE, val |-> Unwrap(noise), draws |-> 2]

\* C24: a laplace call takes two draws, one for each uniform sample: a
\* successful fuzzy_count advances the random source by 2 draws and a
\* successful fuzzy_average by 4, its sum noise made of the first and the
\* second draw and its count noise of the third and the fourth.
QueriesDrawInOrder ==
    [][LET p == average_checked(cache, storage, debugAssertions)
           d == pending
           noise == NoiseOf(FxDiv(One, get_epsilon(cache, storage).val).val, d[1], d[2])
       IN
       /\ (last'.op = "fuzzy_count" /\ last'.outcome = "ok") =>
             /\ pending' = SubSeq(d, 3, Len(d))
             /\ IsSome(noise)
             /\ last'.val =
                   FxAdd(NarrowFromU32(get_count(cache, storage).val).val,
                         Unwrap(noise)).val
       /\ (last'.op = "fuzzy_average" /\ last'.outcome = "ok") =>
             /\ pending' = SubSeq(d, 5, Len(d))
             /\ IsSome(NoiseOf(p.scale, d[1], d[2]))
             /\ IsSome(NoiseOf(p.scale1.val, d[3], d[4]))
             /\ last'.val =
                   average_noised(p, storage, debugAssertions,
                                  TwoDraws(NoiseOf(p.scale, d[1], d[2])),
                                  TwoDraws(NoiseOf(p.scale1.val, d[3], d[4]))).val]_vars

\* A count and then an average were answered from six draws, the two noises
\* of the average made from different draws.
SixDrawsTaken ==
    /\ last.op = "fuzzy_average"
    /\ last.outcome = "ok"
    /\ calls = 2
    /\ last.draws = 4
    /\ pending = << >>

\* C25: for every draw n of the random source random_unit_interval returns
\* a value u with 0 <= u < 1: the sample of each draw a query takes is below 1.
SamplesAreBelowOne ==
    [][\A i \in 1 .. last'.draws :
          /\ 0 <= random_unit_interval(pending[i])
          /\ random_unit_interval(pending[i]) < One]_vars

\* C26: a draw of exactly 0 is tolerated: a query that takes a draw 0 does
\* not abort; it returns a result and debits the budget, or returns an error
\* value and leaves the budget as it was.
ZeroDrawIsTolerated ==
    [][(\E i \in 1 .. last'.draws : pending[i] = 0) =>
          /\ last'.outcome # "panic"
          /\ last'.outcome # "ok" =>
                get_privacy_budget(EmptyCache, storage').val = PBudget]_vars

\* C27: fuzzy_average takes as the sensitivity of its sum term the override
\* when one is stored for the session and upper_bound - lower_bound
\* otherwise (the count term has sensitivity 1): after
\* set_average_sensitivity(Some(s)) it returns what it returns for a session
\* whose override reads as s.
AverageUsesOverride ==
    [][(/\ calls > 0
        /\ last.op = "set_average_sensitivity"
        /\ IsSome(last.arg)
        /\ last'.op = "fuzzy_average") =>
          LET overridden == [storage EXCEPT !["a-sen"] = Some(NarrowToBe(Unwrap(last.arg)))]
              expected == fuzzy_average(cache, overridden, debugAssertions, pending)
          IN  /\ last'.outcome = expected.outcome
              /\ last'.val = expected.val]_vars

\* C28: in every reachable state the epsilon in effect is strictly positive
\* (so the noise scale 1 / epsilon is defined and a query lowers the budget):
\* no public operation installs an epsilon <= 0.
EpsilonIsPositive ==
    ~Malformed(storage, "epsilon") => PEpsilon > 0

\* What the claim gives as the reading of an absent key (is_empty for the count).
DefaultOf(f) ==
    CASE f = "count" -> TRUE
      [] f = "sum" -> 0
      [] f = "ub" -> MinNarrow
      [] f = "lb" -> MaxNarrow
      [] f = "epsilon" -> One
      [] f = "budget" -> One
      [] f = "a-sen" -> None
      [] f = "status" -> CollectingData

\* C29: a key absent from the storage reads as count 0, sum 0, upper bound
\* the minimum, lower bound the maximum, epsilon 1, privacy budget 1, no
\* sensitivity override and status CollectingData, and the first successful
\* add_observation(x) of a session sets both bounds to x.
AbsentKeysReadAsDefaults ==
    [][/\ (last'.op = "get" /\ storage[last'.arg] = None) =>
             (last'.outcome = "ok" /\ last'.val = DefaultOf(last'.arg))
       /\ (/\ last'.op = "add_observation"
           /\ last'.outcome = "ok"
           /\ \A f \in {"count", "sum", "ub", "lb", "status"} : storage[f] = None) =>
             (/\ get_count(EmptyCache, storage').val = 1
              /\ get_sum(EmptyCache, storage').val = WideFromNarrow(Head(pending))
              /\ get_upper_bound(EmptyCache, storage').val = Head(pending)
              /\ get_lower_bound(EmptyCache, storage').val = Head(pending))]_vars

\* The first observation of a session was stored.
FirstObservationStored ==
    /\ last.op = "add_observation"
    /\ last.outcome = "ok"
    /\ pending = << >>
    /\ PCount = 1
    /\ PUpper = 3 * One
    /\ PLower = 3 * One
    /\ storage["status"] = None

\* C30: the persisted encodings have the widths of the persistence layout:
\* the count 4 bytes, the sum 8 bytes, the two bounds, epsilon and the privacy
\* budget 4 bytes each, the status 1 byte that is 0 (CollectingData) or 1
\* (CalculatingStats).
LayoutWidths ==
    /\ IsSome(storage["count"]) => Len(Unwrap(storage["count"])) = 4
    /\ IsSome(storage["sum"]) => Len(Unwrap(storage["sum"])) = 8
    /\ \A f \in {"ub", "lb", "epsilon", "budget"} :
          IsSome(storage[f]) => Len(Unwrap(storage[f])) = 4
    /\ IsSome(storage["status"]) =>
          /\ Len(Unwrap(storage["status"])) = 1
          /\ Unwrap(storage["status"])[1] = (IF PStatus = CollectingData THEN 0 ELSE 1)

\* C31: RunningStats::add_observation has the status guard of the store: it
\* succeeds on a RunningStats in status DP_COLLECTING_DATA, the status
\* RunningStats::new gives (unless the count or the sum overflows), and fails
\* with an error on one in status DP_CALCULATING_STATS.
StatsGuardIsTheStoreGuard ==
    [][last'.op = "RunningStats::add_observation" =>
          /\ cache.status = DP_COLLECTING_DATA => last'.outcome \in {"ok", "Overflow"}
          /\ cache.status = DP_CALCULATING_STATS => last'.outcome \in ErrorValues]_vars

\* C32: in a session with initial budget B and epsilon e > 0 the successful
\* fuzzy_count calls plus twice the successful fuzzy_average calls never
\* number more than floor(B / e) (`charged` counts them so).
ChargesWithinBudget ==
    PEpsilon > 0 => charged * PEpsilon <= budget0

\* C33: a persisted status of CalculatingStats implies a persisted count
\* greater than zero, in every state the public operations reach.
FinalizedHasObservations ==
    PStatus = "CalculatingStats" => PCount > 0

\* The instance is about to derive the sensitivity of the sum from the bounds:
\* a fuzzy_average now passes the status, count and budget checks and finds
\* no override.
DerivesFromBounds ==
    LET s == get_status(cache, storage)
        n == get_count(cache, storage)
        eps == get_epsilon(cache, storage)
        privacy_cost == FxIntMul(2, eps.val)
        bud == get_privacy_budget(cache, storage)
        sen == get_avg_sensitivity(cache, storage)
    IN  /\ ~s.err /\ s.val = CalculatingStats
        /\ ~n.err /\ n.val > 0
        /\ ~eps.err /\ ~(debugAssertions /\ privacy_cost.ovf)
        /\ ~bud.err /\ ~(bud.val < privacy_cost.val)
        /\ ~sen.err /\ ~IsSome(sen.val)
        /\ ~get_upper_bound(cache, storage).err
        /\ ~get_lower_bound(cache, storage).err

\* C34: whenever fuzzy_average derives the sensitivity of the sum from the
\* bounds on a session with count > 0, the lower bound it reads is at most
\* the upper bound, and their difference is a non-negative value of I32F32
\* computed without wrap-around or abort.
BoundsGiveASensitivity ==
    [][last'.op = "fuzzy_average" /\ calls' = calls /\ DerivesFromBounds =>
          LET ub == get_upper_bound(cache, storage).val
              lb == get_lower_bound(cache, storage).val
          IN  /\ lb <= ub
              /\ ~FxSub(ub, lb).ovf
              /\ FxSub(ub, lb).val >= 0]_vars

\* The segments a and b have a point in common: a[1] + t (a[2] - a[1]) =
\* b[1] + u (b[2] - b[1]) for some t and u in [0, 1], which are T / D and
\* U / D when the segments are not parallel (parallel segments of which no
\* three endpoints are collinear have no common point).
SharePoint(a, b) ==
    LET D == (a[2].x - a[1].x) * (b[2].y - b[1].y) - (a[2].y - a[1].y) * (b[2].x - b[1].x)
        T == (b[1].x - a[1].x) * (b[2].y - b[1].y) - (b[1].y - a[1].y) * (b[2].x - b[1].x)
        U == (b[1].x - a[1].x) * (a[2].y - a[1].y) - (b[1].y - a[1].y) * (a[2].x - a[1].x)
    IN  /\ D # 0
        /\ IF D > 0 THEN 0 <= T /\ T <= D /\ 0 <= U /\ U <= D
           ELSE D <= T /\ T <= 0 /\ D <= U /\ U <= 0

\* No three of the four endpoints of a and b are collinear.
GeneralPosition(a, b) ==
    LET e == <<a[1], a[2], b[1], b[2]>> IN
    \A i \in 1 .. 4, j \in 1 .. 4, k \in 1 .. 4 :
       (i < j /\ j < k) => signed_area(e[i], e[j], e[k]) # 0

\* C35: for two non-degenerate segments on the grid of which no three
\* endpoints are collinear, intersects returns true exactly when the
\* segments share a point, and a.intersects(b) = b.intersects(a).
IntersectsIsSharingAPoint ==
    (last.op = "intersects" /\ GeneralPosition(last.arg[1], last.arg[2])) =>
       /\ last.val = SharePoint(last.arg[1], last.arg[2])
       /\ last.val = intersects(last.arg[2], last.arg[1])

====
